---- MODULE Spec2Model ----
(***************************************************************************)
(* IntersectionObserver Lab (src/routes/+page.svelte): the reusable        *)
(* `intersect` action and the page state it drives (scroll spy, lazy       *)
(* images, reveal blocks, live log).                                       *)
(*                                                                         *)
(* Numbers: thresholds and the slider are in hundredths (0.35 is 35), an   *)
(* entry's intersectionRatio is in thousandths, the clock is in seconds.   *)
(***************************************************************************)
EXTENDS Integers, Sequences, FiniteSets, TLC

VARIABLES
    activeSection,   \* $state: the highlighted navigation section
    revealThreshold, \* $state: the slider's value
    imageSrc,        \* $state: gallery id -> URL shown
    loadedImages,    \* $state: set of gallery ids
    revealed,        \* $state: set of reveal block ids
    logs,            \* $state: LogEntry list
    images,          \* Image objects whose load is in flight, with their onload closure
    now,             \* the wall clock new Date() reads, in seconds since the page was mounted
    att,             \* node -> the closure of one intersect(node, params) call
    mounted,         \* the page is mounted (no destroy() has run yet)
    events,          \* entries the platform has queued so far
    updates,         \* update() calls so far
    recorded,        \* history: every entry note() has built, oldest first
    loads,           \* history: gallery id -> [done, failed] counts of ended loads
    history          \* history: probe node -> what happened to its attachment, oldest first

vars == <<activeSection, revealThreshold, imageSrc, loadedImages, revealed, logs,
          images, now, att, mounted, events, updates, recorded, loads, history>>

-----------------------------------------------------------------------------
(* Bounds of the exploration *)

NumSections == 1
NumGallery == 1
NumReveal == 1
NumSpy == 1
MaxEvents == 2
MaxUpdates == 1
PreLogged == 9

-----------------------------------------------------------------------------
(* Static page data *)

LogCap == 10
DefaultThreshold == 25
InitialRevealThreshold == 35
SliderMin == 5
SliderMax == 80

navSections == <<"overview", "lazy", "reveal", "spy", "log">>

sectionThreshold ==
    [overview |-> 60, lazy |-> 50, reveal |-> 55, spy |-> 55, log |-> 40]

gallery == <<
    [id |-> "aurora",
     blur |-> "https://images.unsplash.com/photo-1444703686981-a3abbc4d4fe3?auto=format&fit=crop&w=40&q=20&blur=40",
     full |-> "https://images.unsplash.com/photo-1444703686981-a3abbc4d4fe3?auto=format&fit=crop&w=1400&q=80"],
    [id |-> "desert",
     blur |-> "https://images.unsplash.com/photo-1500534314209-a25ddb2bd429?auto=format&fit=crop&w=40&q=20&blur=40",
     full |-> "https://images.unsplash.com/photo-1500534314209-a25ddb2bd429?auto=format&fit=crop&w=1400&q=80"],
    [id |-> "city",
     blur |-> "https://images.unsplash.com/photo-1444084316824-dc26d6657664?auto=format&fit=crop&w=40&q=20&blur=40",
     full |-> "https://images.unsplash.com/photo-1444084316824-dc26d6657664?auto=format&fit=crop&w=1400&q=80"],
    [id |-> "forest",
     blur |-> "https://images.unsplash.com/photo-1500530855697-b586d89ba3ee?auto=format&fit=crop&w=40&q=20&blur=40",
     full |-> "https://images.unsplash.com/photo-1500530855697-b586d89ba3ee?auto=format&fit=crop&w=1400&q=80"] >>

revealBlocks == <<"io-batching", "precision", "off-main", "cleanup">>

spySections == <<"use-case-1", "use-case-2", "use-case-3">>

Min(a, b) == IF a < b THEN a ELSE b

Prefix(s, n) == {s[i] : i \in 1..Min(n, Len(s))}

SectionIds == Prefix(navSections, NumSections)
Shots == Prefix(gallery, NumGallery)
ShotIds == {g.id : g \in Shots}
BlockIds == Prefix(revealBlocks, NumReveal)
SpyIds == Prefix(spySections, NumSpy)

Shot(id) == CHOOSE g \in Shots : g.id = id

\* The elements of the page that carry use:intersect.
PageNodes == SectionIds \cup ShotIds \cup BlockIds \cup SpyIds

-----------------------------------------------------------------------------
(* JavaScript values, tagged with their type: `??` and `?.` test for       *)
(* null/undefined, and a params object may leave any property out          *)

Undefined == [t |-> "undefined"]
Null == [t |-> "null"]
Num(v) == [t |-> "number", v |-> v]
Str(v) == [t |-> "string", v |-> v]
Bool(v) == [t |-> "boolean", v |-> v]
Elem(v) == [t |-> "element", v |-> v]
Fn(v) == [t |-> "function", v |-> v]

IsNullish(x) == x.t \in {"undefined", "null"}

\* a ?? b
Coalesce(a, b) == IF IsNullish(a) THEN b ELSE a

\* p.k of an object that may not have the property
Get(p, k) == IF k \in DOMAIN p THEN p[k] ELSE Undefined

\* { ...c, ...n }
Spread(c, n) == [k \in DOMAIN c \cup DOMAIN n |-> IF k \in DOMAIN n THEN n[k] ELSE c[k]]

\* if (x) for the once flag
Truthy(x) == x.t = "boolean" /\ x.v

-----------------------------------------------------------------------------
(* The platform's IntersectionObserver object: the options it was built    *)
(* with, the elements it watches, and the entries queued for its callback  *)

NewObserver(opts) == [opts |-> opts, targets |-> {}, queue |-> <<>>]

observe(o, node) == [o EXCEPT !.targets = @ \cup {node}]

unobserve(o, node) == [o EXCEPT !.targets = @ \ {node}]

disconnect(o) == [o EXCEPT !.targets = {}]

\* What the platform may report for a watched element.
EntryShapes ==
    { [isIntersecting |-> TRUE, intersectionRatio |-> 615],
      [isIntersecting |-> FALSE, intersectionRatio |-> 0] }

Entry(node, shape) ==
    [target |-> node,
     isIntersecting |-> shape.isIntersecting,
     intersectionRatio |-> shape.intersectionRatio]

-----------------------------------------------------------------------------
(* Page functions.  pg is the page's mutable state as a record             *)

Take(s, n) == SubSeq(s, 1, Min(n, Len(s)))

\* Math.round(ratio * 100) / 100, from thousandths to hundredths
Round2(r) == (r + 5) \div 10

\* Intl.DateTimeFormat('de-DE', hour/minute/second 2-digit).format(date)
FormatTime(t) == <<(t \div 3600) % 24, (t \div 60) % 60, t % 60>>

LogEntry(entry, id, t) ==
    [id |-> id,
     ratio |-> Round2(entry.intersectionRatio),
     direction |-> IF entry.isIntersecting THEN "enter" ELSE "leave",
     time |-> FormatTime(t)]

\* note without its slice(0, 10)
note_unsliced(pg, entry, id, t) ==
    [pg EXCEPT !.logs = <<LogEntry(entry, id, t)>> \o pg.logs,
               !.recorded = Append(@, LogEntry(entry, id, t))]

\* note putting the new entry last
note_appending(pg, entry, id, t) ==
    [pg EXCEPT !.logs = Take(pg.logs \o <<LogEntry(entry, id, t)>>, LogCap),
               !.recorded = Append(@, LogEntry(entry, id, t))]

note(pg, entry, id, t) ==
    [pg EXCEPT !.logs = Take(<<LogEntry(entry, id, t)>> \o pg.logs, LogCap),
               !.recorded = Append(@, LogEntry(entry, id, t))]

\* loadFull swapping the source at once, without waiting for the load
loadFull_eager(pg, item, entry) ==
    IF pg.imageSrc[item.id] = item.full
    THEN pg
    ELSE [pg EXCEPT !.imageSrc = [@ EXCEPT ![item.id] = item.full],
                    !.loadedImages = @ \cup {item.id}]

\* loadFull logging when the load starts, not when it completes
loadFull_logging(pg, item, entry) ==
    IF pg.imageSrc[item.id] = item.full
    THEN pg
    ELSE [pg EXCEPT !.images = Append(@, [item |-> item.id, entry |-> [none |-> TRUE]]),
                    !.logs = Take(<<LogEntry(entry, item.id, 0)>> \o pg.logs, LogCap),
                    !.recorded = Append(@, LogEntry(entry, item.id, 0))]

\* loadFull up to the point where it returns: the Image it starts, if any
loadFull(pg, item, entry) ==
    IF pg.imageSrc[item.id] = item.full
    THEN pg
    ELSE [pg EXCEPT !.images = Append(@, [item |-> item.id, entry |-> entry])]

\* onload flipping the source instead of setting it
onload_flipping(pg, img, t) ==
    LET item == Shot(img.item)
        swapped == [pg EXCEPT !.imageSrc = [@ EXCEPT ![item.id] =
                                              IF @ = item.full THEN item.blur ELSE item.full],
                              !.loadedImages = @ \cup {item.id}]
    IN  IF "target" \in DOMAIN img.entry
        THEN note(swapped, img.entry, item.id, t)
        ELSE swapped

\* onload swapping the source without marking the item loaded
onload_unmarked(pg, img, t) ==
    LET item == Shot(img.item)
        swapped == [pg EXCEPT !.imageSrc = [@ EXCEPT ![item.id] = item.full]]
    IN  IF "target" \in DOMAIN img.entry
        THEN note(swapped, img.entry, item.id, t)
        ELSE swapped

\* img.onload of the Image that loadFull started
onload(pg, img, t) ==
    LET item == Shot(img.item)
        swapped == [pg EXCEPT !.imageSrc = [@ EXCEPT ![item.id] = item.full],
                              !.loadedImages = @ \cup {item.id}]
    IN  IF "target" \in DOMAIN img.entry
        THEN note(swapped, img.entry, item.id, t)
        ELSE swapped

\* markRevealed taking the block out again on its next enter
markRevealed_toggling(pg, id, entry, t) ==
    IF id \notin pg.revealed
    THEN LET marked == [pg EXCEPT !.revealed = @ \cup {id}]
         IN  IF "target" \in DOMAIN entry THEN note(marked, entry, id, t) ELSE marked
    ELSE [pg EXCEPT !.revealed = @ \ {id}]

\* markRevealed without its test of revealed
markRevealed_unguarded(pg, id, entry, t) ==
    LET marked == [pg EXCEPT !.revealed = @ \cup {id}]
    IN  IF "target" \in DOMAIN entry THEN note(marked, entry, id, t) ELSE marked

markRevealed(pg, id, entry, t) ==
    IF id \notin pg.revealed
    THEN LET marked == [pg EXCEPT !.revealed = @ \cup {id}]
         IN  IF "target" \in DOMAIN entry THEN note(marked, entry, id, t) ELSE marked
    ELSE pg

\* The closures the markup passes as onEnter / onLeave, and what calling one does.
SectionEnter(id) == [fn |-> "section", id |-> id]
ShotEnter(id) == [fn |-> "shot", id |-> id]
BlockEnter(id, gen) == [fn |-> "block", id |-> id, gen |-> gen]
SpyEnter(id) == [fn |-> "spyEnter", id |-> id]
SpyLeave(id) == [fn |-> "spyLeave", id |-> id]
Probe(tag) == [fn |-> "probe", id |-> tag]

\* The spy article's onLeave setting activeSection as its onEnter does
Call_leaveActivates(f, entry, pg, t) ==
    CASE f.fn = "section"  -> [pg EXCEPT !.activeSection = f.id]
      [] f.fn = "shot"     -> loadFull(pg, Shot(f.id), entry)
      [] f.fn = "block"    -> markRevealed(pg, f.id, entry, t)
      [] f.fn = "spyEnter" -> note([pg EXCEPT !.activeSection = "spy"], entry, f.id, t)
      [] f.fn = "spyLeave" -> note([pg EXCEPT !.activeSection = "spy"], entry, f.id, t)
      [] OTHER             -> pg

Call(f, entry, pg, t) ==
    CASE f.fn = "section"  -> [pg EXCEPT !.activeSection = f.id]
      [] f.fn = "shot"     -> loadFull(pg, Shot(f.id), entry)
      [] f.fn = "block"    -> markRevealed(pg, f.id, entry, t)
      [] f.fn = "spyEnter" -> note([pg EXCEPT !.activeSection = "spy"], entry, f.id, t)
      [] f.fn = "spyLeave" -> note(pg, entry, f.id, t)
      [] OTHER             -> pg

\* The use:intersect={{...}} object of each kind of element.
SectionParams(id) ==
    [threshold |-> Num(sectionThreshold[id]), onEnter |-> Fn(SectionEnter(id))]

ShotParams(id) ==
    [threshold |-> Num(15), rootMargin |-> Str("0px 0px 240px 0px"),
     once |-> Bool(TRUE), onEnter |-> Fn(ShotEnter(id))]

BlockParams(id, threshold, gen) ==
    [threshold |-> Num(threshold), onEnter |-> Fn(BlockEnter(id, gen))]

SpyParams(id) ==
    [threshold |-> Num(50), onEnter |-> Fn(SpyEnter(id)), onLeave |-> Fn(SpyLeave(id))]

PageParams(n, threshold, gen) ==
    IF n \in SectionIds THEN SectionParams(n)
    ELSE IF n \in ShotIds THEN ShotParams(n)
    ELSE IF n \in BlockIds THEN BlockParams(n, threshold, gen)
    ELSE SpyParams(n)

-----------------------------------------------------------------------------
(* The intersect action.  a is the closure of one call: opts, current, the *)
(* observers it has made and `observer`, the index of the one it holds     *)

init(a, node) ==
    LET made == IF a.observer = 0
                THEN a.made
                ELSE [a.made EXCEPT ![a.observer] = disconnect(@)]
    IN  [a EXCEPT !.made = Append(made, observe(NewObserver(a.opts), node)),
                  !.observer = Len(made) + 1]

intersect(node, params) ==
    init([opts |-> [root |-> Coalesce(Get(params, "root"), Null),
                    rootMargin |-> Coalesce(Get(params, "rootMargin"), Str("0px")),
                    threshold |-> Coalesce(Get(params, "threshold"), Num(DefaultThreshold))],
          current |-> params,
          made |-> <<>>,
          observer |-> 0],
         node)

\* update rebuilding the observer without merging next into current
update_keeping(a, node, next) ==
    init([a EXCEPT
            !.opts = [root |-> Coalesce(Get(next, "root"), Coalesce(a.opts.root, Null)),
                      rootMargin |-> Coalesce(Get(next, "rootMargin"),
                                              Coalesce(a.opts.rootMargin, Str("0px"))),
                      threshold |-> Coalesce(Get(next, "threshold"), a.opts.threshold)]],
         node)

update(a, node, next) ==
    init([a EXCEPT
            !.current = Spread(a.current, next),
            !.opts = [root |-> Coalesce(Get(next, "root"), Coalesce(a.opts.root, Null)),
                      rootMargin |-> Coalesce(Get(next, "rootMargin"),
                                              Coalesce(a.opts.rootMargin, Str("0px"))),
                      threshold |-> Coalesce(Get(next, "threshold"), a.opts.threshold)]],
         node)

destroy(a) ==
    IF a.observer = 0
    THEN a
    ELSE [a EXCEPT !.made[a.observer] = disconnect(@)]

\* The callback without its else: a leave callback runs for every entry.
onEntry_noElse(r, k, entry, t) ==
    LET a == r.a
        f == Get(a.current, "onEnter")
        g == Get(a.current, "onLeave")
        first == IF entry.isIntersecting /\ ~IsNullish(f)
                 THEN <<[name |-> "onEnter", fn |-> f.v]>>
                 ELSE <<>>
        second == IF IsNullish(g) THEN <<>> ELSE <<[name |-> "onLeave", fn |-> g.v]>>
        pg1 == IF first = <<>> THEN r.pg ELSE Call(f.v, entry, r.pg, t)
    IN  [a |-> IF entry.isIntersecting /\ Truthy(Get(a.current, "once"))
               THEN [a EXCEPT !.made[a.observer] = unobserve(@, entry.target)]
               ELSE a,
         pg |-> IF second = <<>> THEN pg1 ELSE Call(g.v, entry, pg1, t),
         h |-> Append(r.h, [ev |-> "entry", obs |-> k, entry |-> entry,
                            called |-> first \o second])]

\* What one entry of a batch makes the callback of observer k do: r carries
\* the closure a, the page pg and the attachment's history h.
onEntry(r, k, entry, t) ==
    LET a == r.a
        f == Get(a.current, IF entry.isIntersecting THEN "onEnter" ELSE "onLeave")
        called == IF IsNullish(f)
                  THEN <<>>
                  ELSE <<[name |-> IF entry.isIntersecting THEN "onEnter" ELSE "onLeave",
                          fn |-> f.v]>>
    IN  [a |-> IF entry.isIntersecting /\ Truthy(Get(a.current, "once"))
               THEN [a EXCEPT !.made[a.observer] = unobserve(@, entry.target)]
               ELSE a,
         pg |-> IF IsNullish(f) THEN r.pg ELSE Call(f.v, entry, r.pg, t),
         h |-> Append(r.h, [ev |-> "entry", obs |-> k, entry |-> entry,
                            called |-> called])]

RECURSIVE forEach(_, _, _, _)
forEach(entries, r, k, t) ==
    IF entries = <<>>
    THEN r
    ELSE forEach(Tail(entries), onEntry(r, k, Head(entries), t), k, t)

-----------------------------------------------------------------------------
(* States *)

PG ==
    [activeSection |-> activeSection, imageSrc |-> imageSrc,
     loadedImages |-> loadedImages, revealed |-> revealed, logs |-> logs,
     images |-> images, recorded |-> recorded]

SetPage(pg) ==
    /\ activeSection' = pg.activeSection
    /\ imageSrc' = pg.imageSrc
    /\ loadedImages' = pg.loadedImages
    /\ revealed' = pg.revealed
    /\ logs' = pg.logs
    /\ images' = pg.images
    /\ recorded' = pg.recorded

\* The page as its <script> leaves it.
FreshPage ==
    [activeSection |-> "overview",
     imageSrc |-> [id \in ShotIds |-> Shot(id).blur],
     loadedImages |-> {}, revealed |-> {}, logs |-> <<>>,
     images |-> <<>>, recorded |-> <<>>]

\* The state once the page is mounted: every use:intersect has run.
Mounted(a, pg, h) ==
    /\ activeSection = pg.activeSection
    /\ imageSrc = pg.imageSrc
    /\ loadedImages = pg.loadedImages
    /\ revealed = pg.revealed
    /\ logs = pg.logs
    /\ images = pg.images
    /\ recorded = pg.recorded
    /\ revealThreshold = InitialRevealThreshold
    /\ now = 0
    /\ att = a
    /\ mounted = TRUE
    /\ events = 0
    /\ updates = 0
    /\ loads = [id \in ShotIds |-> [done |-> 0, failed |-> 0]]
    /\ history = h

PageAtt == [n \in PageNodes |-> intersect(n, PageParams(n, InitialRevealThreshold, 0))]

Init == Mounted(PageAtt, FreshPage, [n \in {} |-> <<>>])

\* The first spy article scrolled out of and into view PreLogged times, one
\* notification each: the page with that many events logged.
FirstSpy == spySections[1]

RECURSIVE Scrolled(_)
Scrolled(i) ==
    IF i = 0
    THEN [a |-> PageAtt[FirstSpy], pg |-> FreshPage, h |-> <<>>]
    ELSE onEntry(Scrolled(i - 1), 1,
                 Entry(FirstSpy, [isIntersecting |-> i % 2 = 0,
                                  intersectionRatio |-> IF i % 2 = 0 THEN 615 ELSE 0]),
                 0)

InitLog ==
    LET r == Scrolled(PreLogged)
    IN  Mounted([PageAtt EXCEPT ![FirstSpy] = r.a], r.pg, [n \in {} |-> <<>>])

\* One element carrying use:intersect with params of any shape.
ProbeNode == "node"

ProbeParams ==
    { [x \in {} |-> Undefined],
      [threshold |-> Num(50), onEnter |-> Fn(Probe("enterA"))],
      [root |-> Elem("scroller"), rootMargin |-> Str("10px"), threshold |-> Num(0),
       once |-> Bool(TRUE), onEnter |-> Fn(Probe("enterA")),
       onLeave |-> Fn(Probe("leaveA"))] }

ProbeNext ==
    { [x \in {} |-> Undefined],
      [root |-> Null],
      [root |-> Elem("panel")],
      [rootMargin |-> Str("")],
      [threshold |-> Num(0)],
      [threshold |-> Num(75), onEnter |-> Fn(Probe("enterB"))],
      [once |-> Bool(TRUE), onLeave |-> Fn(Probe("leaveB"))] }

InitHelper ==
    \E p \in ProbeParams :
        Mounted([n \in {ProbeNode} |-> intersect(n, p)], FreshPage,
                [n \in {ProbeNode} |-> <<[ev |-> "attach", params |-> p]>>])

Nodes == DOMAIN att

-----------------------------------------------------------------------------
(* Steps *)

\* The history kept for node n so far (none for an element of the page).
Past(n) == IF n \in DOMAIN history THEN history[n] ELSE <<>>

Remove(s, i) == SubSeq(s, 1, i - 1) \o SubSeq(s, i + 1, Len(s))

\* The platform finds a change for an element that observer k of node n
\* watches, and queues an entry for the observer's callback.  The checks are
\* taken to be a second apart.
Observe(n, k, shape) ==
    /\ events < MaxEvents
    /\ n \in att[n].made[k].targets
    /\ att' = [att EXCEPT ![n].made[k].queue = Append(@, Entry(n, shape))]
    /\ events' = events + 1
    /\ now' = now + 1
    /\ UNCHANGED <<activeSection, revealThreshold, imageSrc, loadedImages, revealed,
                   logs, images, mounted, updates, recorded, loads, history>>

\* The platform hands observer k of node n its queued entries: the callback
\* that init gave the observer runs over the batch.
Notify(n, k) ==
    /\ att[n].made[k].queue # <<>>
    /\ LET r == forEach(att[n].made[k].queue,
                        [a |-> [att[n] EXCEPT !.made[k].queue = <<>>],
                         pg |-> PG, h |-> Past(n)],
                        k, now)
       IN  /\ att' = [att EXCEPT ![n] = r.a]
           /\ history' = [m \in DOMAIN history |-> IF m = n THEN r.h ELSE history[m]]
           /\ SetPage(r.pg)
    /\ UNCHANGED <<revealThreshold, now, mounted, events, updates, loads>>

\* The load of the i-th Image in flight completes: its onload runs.
ImageLoad(i) ==
    /\ SetPage(onload([PG EXCEPT !.images = Remove(@, i)], images[i], now))
    /\ loads' = [loads EXCEPT ![images[i].item].done = @ + 1]
    /\ UNCHANGED <<revealThreshold, now, att, mounted, events, updates, history>>

\* The load of the i-th Image in flight fails: no handler is set for that.
ImageError(i) ==
    /\ images' = Remove(images, i)
    /\ loads' = [loads EXCEPT ![images[i].item].failed = @ + 1]
    /\ UNCHANGED <<activeSection, revealThreshold, imageSrc, loadedImages, revealed,
                   logs, now, att, mounted, events, updates, recorded, history>>

\* The slider's on:input: revealThreshold changes, and every reveal block's
\* use:intersect object is built anew and handed to update.
Input(v) ==
    /\ mounted
    /\ updates < MaxUpdates
    /\ v # revealThreshold
    /\ revealThreshold' = v
    /\ updates' = updates + 1
    /\ att' = [n \in Nodes |->
                 IF n \in BlockIds
                 THEN update(att[n], n, BlockParams(n, v, updates + 1))
                 ELSE att[n]]
    /\ history' = [n \in DOMAIN history |->
                     IF n \in BlockIds
                     THEN Append(history[n],
                                 [ev |-> "update", next |-> BlockParams(n, v, updates + 1)])
                     ELSE history[n]]
    /\ UNCHANGED <<activeSection, imageSrc, loadedImages, revealed, logs, images, now,
                   mounted, events, recorded, loads>>

\* update(next) of the attachment of node n.
Update(n, next) ==
    /\ mounted
    /\ updates < MaxUpdates
    /\ updates' = updates + 1
    /\ att' = [att EXCEPT ![n] = update(@, n, next)]
    /\ history' = [m \in DOMAIN history |->
                     IF m = n
                     THEN Append(history[m], [ev |-> "update", next |-> next])
                     ELSE history[m]]
    /\ UNCHANGED <<activeSection, revealThreshold, imageSrc, loadedImages, revealed,
                   logs, images, now, mounted, events, recorded, loads>>

\* The page is unmounted: destroy() of every attachment runs.
Unmount ==
    /\ mounted
    /\ mounted' = FALSE
    /\ att' = [n \in Nodes |-> destroy(att[n])]
    /\ history' = [n \in DOMAIN history |-> Append(history[n], [ev |-> "destroy"])]
    /\ UNCHANGED <<activeSection, revealThreshold, imageSrc, loadedImages, revealed,
                   logs, images, now, events, updates, recorded, loads>>

SliderInputs == {SliderMin, InitialRevealThreshold, SliderMax}

Next ==
    \/ \E n \in Nodes : \E k \in 1..Len(att[n].made) : \E shape \in EntryShapes :
          Observe(n, k, shape)
    \/ \E n \in Nodes : \E k \in 1..Len(att[n].made) : Notify(n, k)
    \/ \E i \in 1..Len(images) : ImageLoad(i)
    \/ \E i \in 1..Len(images) : ImageError(i)
    \/ \E v \in SliderInputs : Input(v)
    \/ Unmount

Spec == Init /\ [][Next]_vars

SpecLog == InitLog /\ [][Next]_vars

NextHelper ==
    \/ \E n \in Nodes : \E k \in 1..Len(att[n].made) : \E shape \in EntryShapes :
          Observe(n, k, shape)
    \/ \E n \in Nodes : \E k \in 1..Len(att[n].made) : Notify(n, k)
    \/ \E n \in Nodes : \E next \in ProbeNext : Update(n, next)
    \/ Unmount

SpecHelper == InitHelper /\ [][NextHelper]_vars

-----------------------------------------------------------------------------
(* Properties *)

Queues == UNION {{att[n].made[k].queue : k \in 1..Len(att[n].made)} : n \in Nodes}

\* Every entry the platform queued has been handed to a callback.
Drained == Queues \subseteq {<<>>}

\* C1: in every reachable state the list logs holds at most 10 entries.
C1_LogsCapped == Len(logs) <= LogCap

C1_Witness == Len(recorded) > LogCap /\ Len(logs) = LogCap

\* C2: after n calls of note, logs is the min(n, 10) most recently recorded
\* events, newest first: logs[i] is the i-th last event recorded.
C2_NewestFirst ==
    /\ Len(logs) = Min(Len(recorded), LogCap)
    /\ \A i \in 1..Len(logs) : logs[i] = recorded[Len(recorded) + 1 - i]

C2_Witness ==
    /\ Len(recorded) > LogCap
    /\ logs[1] # logs[2]
    /\ logs[LogCap] = recorded[Len(recorded) + 1 - LogCap]

\* C3: imageSrc of every gallery item starts as the placeholder URL, and a
\* step changes it only from the placeholder to the full-resolution URL (so
\* at most once, and never back).
C3_SwapsOnce ==
    /\ \A id \in ShotIds : imageSrc[id] = Shot(id).blur
    /\ [][\A id \in ShotIds :
            imageSrc'[id] # imageSrc[id] =>
                imageSrc[id] = Shot(id).blur /\ imageSrc'[id] = Shot(id).full]_vars

\* A second load of the same item has completed after the swap.
C3_Witness ==
    \E id \in ShotIds : imageSrc[id] = Shot(id).full /\ loads[id].done > 1

\* C4: an identifier in loadedImages or in revealed stays in that set in
\* every later state.
C4_OneWay ==
    [][loadedImages \subseteq loadedImages' /\ revealed \subseteq revealed']_vars

\* A block is revealed, the slider has moved since the page was mounted, and
\* every notification has been handled.
C4_Witness ==
    /\ \E id \in revealed : Len(att[id].made) > 1
    /\ events = MaxEvents
    /\ Drained


(* The history of an attachment: [ev |-> "attach", params], then in order  *)
(* [ev |-> "update", next], [ev |-> "destroy"] and, for every entry a      *)
(* callback was handed, [ev |-> "entry", obs, entry, called]               *)

Last(s) == s[Len(s)]

\* The observer the attachment holds.
InUse(a) == a.made[a.observer]

\* The same JavaScript value.
Same(x, y) == x.t = y.t /\ (IsNullish(x) \/ x.v = y.v)

\* The params in effect at position i of history h: those of attach,
\* overlaid by the next of every update before i.
RECURSIVE CurrentAt(_, _)
CurrentAt(h, i) ==
    IF i <= 1 THEN h[1].params
    ELSE IF h[i - 1].ev = "update"
         THEN Spread(CurrentAt(h, i - 1), h[i - 1].next)
         ELSE CurrentAt(h, i - 1)

Handled(h) == {i \in 1..Len(h) : h[i].ev = "entry"}

Invoked(h, name) == {i \in Handled(h) : \E c \in 1..Len(h[i].called) : h[i].called[c].name = name}

Destroyed(h) == {i \in 1..Len(h) : h[i].ev = "destroy"}

\* C5, as claimed: an attachment made with once set has, up to its destroy,
\* at most one onEnter invoked and no onLeave invoked after it.
C5_Original ==
    \A n \in DOMAIN history :
        LET h == history[n]
            live(i) == \A d \in Destroyed(h) : i < d
            enters == {i \in Invoked(h, "onEnter") : live(i)}
            leaves == {i \in Invoked(h, "onLeave") : live(i)}
        IN  Truthy(Get(h[1].params, "once")) =>
                /\ Cardinality(enters) <= 1
                /\ \A i \in enters : \A j \in leaves : j < i

\* C6, as claimed: update(next) leaves the attachment with an observer built
\* with, for each of root, rootMargin and threshold, the value next gives
\* (an explicit null too) or else the one of the observer before.
C6_Original ==
    [][\A n \in DOMAIN history :
         (Len(history'[n]) = Len(history[n]) + 1 /\ Last(history'[n]).ev = "update") =>
             \A key \in {"root", "rootMargin", "threshold"} :
                 Same(InUse(att'[n]).opts[key],
                      IF key \in DOMAIN Last(history'[n]).next
                      THEN Last(history'[n]).next[key]
                      ELSE InUse(att[n]).opts[key])]_vars

\* C7, as claimed: after destroy no observer of the attachment watches an
\* element, and no onEnter or onLeave of the attachment is invoked.
C7_Original ==
    \A n \in DOMAIN history :
        LET h == history[n]
        IN  \A d \in Destroyed(h) :
                /\ \A k \in 1..Len(att[n].made) : att[n].made[k].targets = {}
                /\ \A i \in Handled(h) : i > d => h[i].called = <<>>

PageChanged ==
    <<logs, imageSrc, loadedImages, revealed, activeSection>>'
        # <<logs, imageSrc, loadedImages, revealed, activeSection>>

\* The step hands an observer its queued entries.
NotifyStep ==
    \E n \in Nodes : \E k \in 1..Len(att[n].made) :
        att[n].made[k].queue # <<>> /\ att'[n].made[k].queue = <<>>

\* The step is the completion of an image load.
LoadStep == \E id \in ShotIds : loads'[id].done > loads[id].done

\* C8, as claimed: the page state changes only in a step that handles a
\* notification, and not once the elements are detached.
C8_Original == [][PageChanged => NotifyStep /\ mounted]_vars

\* C8, amended: the page state changes only in a step that handles a
\* notification or in one where an image load completes; revealed and
\* activeSection change only in the former, imageSrc and loadedImages only
\* in the latter.
C8_NotifyOrLoad ==
    [][/\ PageChanged => NotifyStep \/ LoadStep
       /\ (revealed' # revealed \/ activeSection' # activeSection) => NotifyStep
       /\ (imageSrc' # imageSrc \/ loadedImages' # loadedImages) => LoadStep]_vars

\* An image has loaded and logged after the page was unmounted, and a spy
\* article has logged too.
C8_Witness ==
    /\ ~mounted
    /\ \E id \in loadedImages : \E i \in 1..Len(logs) : logs[i].id = id
    /\ \E i \in 1..Len(logs) : logs[i].id \in SpyIds

\* C9, as claimed: every entry handed to the callback has exactly one
\* callback invoked, onEnter if it is intersecting and onLeave if not.
C9_Original ==
    \A n \in DOMAIN history :
        \A i \in Handled(history[n]) :
            /\ Len(history[n][i].called) = 1
            /\ history[n][i].called[1].name =
                   IF history[n][i].entry.isIntersecting THEN "onEnter" ELSE "onLeave"

\* C9, amended: for every entry handed to the callback, if the params in
\* effect hold a callback of the entry's kind (onEnter for intersecting,
\* onLeave otherwise), exactly that callback is invoked, once; if not, none
\* is invoked.
C9_MatchingOrNone ==
    \A n \in DOMAIN history :
        \A i \in Handled(history[n]) :
            LET h == history[n]
                key == IF h[i].entry.isIntersecting THEN "onEnter" ELSE "onLeave"
                f == Get(CurrentAt(h, i), key)
            IN  h[i].called = IF IsNullish(f) THEN <<>> ELSE <<[name |-> key, fn |-> f.v]>>

\* An intersecting entry was handled by onEnter, and an entry that was not
\* intersecting found no onLeave to invoke.
C9_Witness ==
    \E n \in DOMAIN history :
        /\ Invoked(history[n], "onEnter") # {}
        /\ \E i \in Handled(history[n]) :
              ~history[n][i].entry.isIntersecting /\ history[n][i].called = <<>>

Logged(id) == \E i \in 1..Len(recorded) : recorded[i].id = id

\* C10: a gallery item none of whose loads has completed shows the
\* placeholder, is not in loadedImages and has no log entry recorded.
C10_NoLoadNoChange ==
    \A id \in ShotIds :
        loads[id].done = 0 =>
            /\ imageSrc[id] = Shot(id).blur
            /\ id \notin loadedImages
            /\ ~Logged(id)

\* The load of an item failed, and a later notification was handled.
C10_Witness ==
    \E id \in ShotIds :
        /\ loads[id].failed > 0
        /\ loads[id].done = 0
        /\ images = <<>>
        /\ events = MaxEvents
        /\ Drained
        /\ logs # <<>>

\* The log entries ever recorded for id.
Entries(id) == {i \in 1..Len(recorded) : recorded[i].id = id}

\* C11, as claimed: at most one log entry is ever recorded for a gallery
\* item, and its entries are recorded by load completions only (as many
\* entries as loads of the item have completed).
C11_Original ==
    \A id \in ShotIds :
        /\ Cardinality(Entries(id)) <= 1
        /\ Cardinality(Entries(id)) = loads[id].done

\* The value of params property key given last before position i of history
\* h: by the latest update whose next has the property, or else at attach.
RECURSIVE LatestGiven(_, _, _)
LatestGiven(h, i, key) ==
    IF i <= 1 THEN Get(h[1].params, key)
    ELSE IF h[i - 1].ev = "update" /\ key \in DOMAIN h[i - 1].next
         THEN h[i - 1].next[key]
         ELSE LatestGiven(h, i - 1, key)

Notified(n) ==
    \E k \in 1..Len(att[n].made) :
        att[n].made[k].queue # <<>> /\ att'[n].made[k].queue = <<>>

\* C13: a reveal block never has more than one log entry recorded, and a
\* notification handled for a block that is already in revealed leaves
\* revealed and logs as they are.
C13_FirstEnterOnly ==
    [][\A b \in BlockIds :
         /\ Cardinality(Entries(b)') <= 1
         /\ (b \in revealed /\ Notified(b)) => (revealed' = revealed /\ logs' = logs)]_vars

\* A block was revealed and logged, the slider then rebuilt its observer,
\* and every notification has been handled.
C13_Witness ==
    /\ \E b \in revealed :
          /\ Len(att[b].made) > 1
          /\ Cardinality(Entries(b)) = 1
          /\ logs[1].id = b
    /\ events = MaxEvents
    /\ Drained

\* C14: a gallery item shows its full-resolution URL exactly when its id is
\* in loadedImages.
C14_FullIffLoaded ==
    \A id \in ShotIds : imageSrc[id] = Shot(id).full <=> id \in loadedImages

\* An item is loaded while another load of it is still in flight.
C14_Witness ==
    \E id \in loadedImages :
        /\ imageSrc[id] = Shot(id).full
        /\ \E i \in 1..Len(images) : images[i].item = id

\* C15, as claimed: at most one observer of an attachment watches anything,
\* it watches the attached element only, and every entry handled comes from
\* the observer made last (by attach or by the latest update before it).
C15_Original ==
    \A n \in DOMAIN history :
        LET h == history[n]
        IN  /\ Cardinality({k \in 1..Len(att[n].made) : att[n].made[k].targets # {}}) <= 1
            /\ \A k \in 1..Len(att[n].made) : att[n].made[k].targets \subseteq {n}
            /\ \A i \in Handled(h) :
                  h[i].obs = 1 + Cardinality({u \in 1..(i - 1) : h[u].ev = "update"})

\* The ids of the navigation sections.
NavIds == {navSections[i] : i \in 1..Len(navSections)}

\* The navigation section an element's onEnter makes active.
SectionOf(n) == IF n \in SpyIds THEN "spy" ELSE n

\* The batch q holds an intersecting entry.
Enters(q) == \E i \in 1..Len(q) : q[i].isIntersecting

\* C16: activeSection is one of the five navigation ids; a step that
\* handles a batch for a section or a spy article holding an intersecting
\* entry makes it that element's section, and no other step changes it (a
\* batch of leave entries, or one for another element, included).
C16_LastEntered ==
    /\ activeSection \in NavIds
    /\ [][/\ activeSection' \in NavIds
          /\ \A n \in Nodes : \A k \in 1..Len(att[n].made) :
                (att[n].made[k].queue # <<>> /\ att'[n].made[k].queue = <<>>) =>
                    activeSection' =
                        IF n \in SectionIds \cup SpyIds /\ Enters(att[n].made[k].queue)
                        THEN SectionOf(n)
                        ELSE activeSection
          /\ ~NotifyStep => activeSection' = activeSection]_vars

\* A spy article entered and logged, and a section entered after it.
C16_Witness ==
    /\ activeSection \in SectionIds
    /\ \E i \in 1..Len(recorded) :
          recorded[i].id \in SpyIds /\ recorded[i].direction = "enter"

====
